---- MODULE Spec2Model ----
(***************************************************************************)
(* A model of the asynchronous core of the debugger package               *)
(* (modules/core/core.py): Future, the callback queue of the event loop,  *)
(* run() with its completion handlers, Tasks driving coroutine bodies,    *)
(* gather() and gather_results().                                         *)
(*                                                                         *)
(* core.py builds on asyncio: Future subclasses asyncio.Future, run() and *)
(* schedule() call asyncio.ensure_future, gather() calls asyncio.gather.  *)
(* Those calls are modelled by what asyncio (3.8, the interpreter of the  *)
(* host) does.  The event loop itself (sublime_event_loop.py) is not part *)
(* of the sources at hand: its callback queue and pump_once are modelled  *)
(* from the design document, and so are its timer wheel, its disposal     *)
(* handles and its exception handler, and the worker pool's hand-off.     *)
(*                                                                         *)
(* Two views that use the core are modelled with it: the problems view    *)
(* (modules/debugger/views/problems.py) with its repeating timer, and the *)
(* modules view (modules/views/modules.py) with its visibility flag.      *)
(***************************************************************************)
EXTENDS Integers, Sequences, FiniteSets, TLC

\* ------------------------------------------------------------------ bounds
NPlain == 1
NGather == 3
MaxSubs == 2
MaxRuns == 1
MaxCalls == 4
MaxTimers == 3
MaxNow == 5
MaxExtra == 1
MaxOffload == 2
MaxSessions == 3
MaxModules == 2
MaxOther == 1
MaxDisposers == 1

\* ThreadPoolExecutor(max_workers=8): the size of the worker pool, scaled
\* down; MaxExtra calls more than the pool holds are offloaded.
max_workers == 3

\* ------------------------------------------------- constants of the code
\* ui.Timer(self.on_tick, 0.5, True): the interval, in half seconds
TickInterval == 1

\* ------------------------------------------------------------- value sets
Values == {"v1", "v2"}
Errors == {"e1"}
None == "None"
CancelledError == "CancelledError"
InvalidState == "InvalidState"
BodyError == "eb"
HandlerError == "es"
CaughtValue == "caught"

ValOf(f) == <<"v1", "v2", "v3", "v4", "v5">>[f]
ErrOf(f) == <<"e1", "e2", "e3", "e4", "e5">>[f]

Plain == 1..NPlain
GIn == 1..NGather
NUser == IF NPlain > NGather THEN NPlain ELSE NGather
TaskIds == (NUser + 1)..(NUser + MaxRuns)
Outer == NUser + MaxRuns + 1
MaxJobs == max_workers + MaxExtra
Jobs == 1..MaxJobs
JobFut(j) == Outer + j
FutIds == 1..(Outer + MaxJobs)
TimerIds == 1..(MaxTimers + 1)
SessionIds == 1..MaxSessions

VARIABLES
  fstate,      \* Future._state, per future
  fval,        \* Future._result / Future._exception
  fcbs,        \* Future._callbacks, in subscription order
  queue,       \* the event loop's callback queue
  tpc,         \* per task: position of the coroutine body
  tbody,       \* per task: the coroutine body it drives
  waiter,      \* Task._fut_waiter (0: None)
  mustCancel,  \* Task._must_cancel
  nsubs,       \* subscriptions made so far
  subOf,       \* the future each subscription was made on (0: not made)
  delivered,   \* log: subscriber callbacks that ran, with the state they saw
  late,        \* history: subscriptions made on an already resolved future
  nruns,       \* run() calls made so far
  runcfg,      \* per run() call: the handlers supplied
  calls,       \* log: on_success / on_error invocations
  unhandled,   \* exceptions that escaped a queued callback
  gactive,     \* history: which of gather / gather_results was called
  gchildren,   \* gather: the children, in argument order
  gretexc,     \* gather: return_exceptions
  nfinished,   \* gather: nfinished
  gresult,     \* gather: the list the outer future was resolved with
  order,       \* history: the gather inputs in the order they were resolved
  gatherAt,    \* history: how many inputs were resolved when gather was called
  cancelSusp,  \* history: tasks cancelled while suspended on a pending future
  executed,    \* history: the entries the last pump ran, in order
  pumpTick,    \* history: flips on every pump
  ncalls,      \* call_soon calls made by the host so far
  timers,      \* the timer wheel: the entries, in insertion order
  tinfo,       \* per timer: its interval and whether it repeats
  now,         \* the host's clock, in half seconds
  ntimers,     \* timers created so far
  handles,     \* the disposal handles call_soon and the timers returned
  disposedH,   \* the handles whose disposal was invoked
  promoted,    \* history: what the last promote_due moved, in order
  nran,        \* history: per call_soon call, how often its callback ran
  tick,        \* ProblemsView.tick
  finished,    \* terminal.finished
  pvtimer,     \* ProblemsView.timer (NoHandle: no view yet)
  tickAtEnd,   \* history: ProblemsView.tick when the terminal finished
  njobs,       \* run_in_executor calls made so far
  jstate,      \* per offloaded call: the state of its executor future
  handoffs,    \* history: per offloaded call, callbacks its worker enqueued
  trail,       \* history: per task, what its body did, in order
  logtb,       \* Future.__log_traceback: a stored exception not yet retrieved
  collected,   \* the tasks that were dropped and garbage collected
  sink,        \* what the loop's exception handler was handed
  sessions,    \* debugger.sessions
  modules,     \* per session: how many modules it has
  visible,     \* ModulesTabbedView._visible
  last         \* the last top-level call and how it ended

vars == << fstate, fval, fcbs, queue, tpc, tbody, waiter, mustCancel, nsubs,
           subOf, delivered, late, nruns, runcfg, calls, unhandled, gactive,
           gchildren, gretexc, nfinished, gresult, order, gatherAt, cancelSusp, executed, pumpTick,
           ncalls, timers, tinfo, now, ntimers, handles, disposedH, promoted,
           nran, tick, finished, pvtimer, tickAtEnd, njobs, jstate, handoffs,
           trail, logtb, collected, sink, sessions, modules, visible, last >>

\* The whole program state as one record, so that an operation is a function
\* from state to state and a pump can run a sequence of them.
St ==
  [ fstate |-> fstate, fval |-> fval, fcbs |-> fcbs, queue |-> queue,
    tpc |-> tpc, tbody |-> tbody, waiter |-> waiter, mustCancel |-> mustCancel,
    nsubs |-> nsubs, subOf |-> subOf, delivered |-> delivered, late |-> late,
    nruns |-> nruns, runcfg |-> runcfg, calls |-> calls,
    unhandled |-> unhandled, gactive |-> gactive, gchildren |-> gchildren,
    gretexc |-> gretexc, nfinished |-> nfinished, gresult |-> gresult,
    order |-> order, gatherAt |-> gatherAt, cancelSusp |-> cancelSusp,
    executed |-> executed, pumpTick |-> pumpTick, ncalls |-> ncalls,
    timers |-> timers, tinfo |-> tinfo, now |-> now, ntimers |-> ntimers,
    handles |-> handles, disposedH |-> disposedH, promoted |-> promoted,
    nran |-> nran, tick |-> tick, finished |-> finished, pvtimer |-> pvtimer,
    tickAtEnd |-> tickAtEnd, njobs |-> njobs, jstate |-> jstate,
    handoffs |-> handoffs, trail |-> trail, logtb |-> logtb,
    collected |-> collected, sink |-> sink, sessions |-> sessions,
    modules |-> modules, visible |-> visible,
    ret |-> "ok" ]

Commit(s, op, f) ==
  /\ fstate' = s.fstate /\ fval' = s.fval /\ fcbs' = s.fcbs
  /\ queue' = s.queue /\ tpc' = s.tpc /\ tbody' = s.tbody
  /\ waiter' = s.waiter /\ mustCancel' = s.mustCancel
  /\ nsubs' = s.nsubs /\ subOf' = s.subOf /\ delivered' = s.delivered
  /\ late' = s.late
  /\ nruns' = s.nruns /\ runcfg' = s.runcfg /\ calls' = s.calls
  /\ unhandled' = s.unhandled /\ gactive' = s.gactive
  /\ gchildren' = s.gchildren /\ gretexc' = s.gretexc
  /\ nfinished' = s.nfinished /\ gresult' = s.gresult
  /\ order' = s.order /\ gatherAt' = s.gatherAt
  /\ cancelSusp' = s.cancelSusp
  /\ executed' = s.executed /\ pumpTick' = s.pumpTick /\ ncalls' = s.ncalls
  /\ timers' = s.timers /\ tinfo' = s.tinfo /\ now' = s.now
  /\ ntimers' = s.ntimers /\ handles' = s.handles
  /\ disposedH' = s.disposedH
  /\ promoted' = s.promoted /\ nran' = s.nran
  /\ tick' = s.tick /\ finished' = s.finished /\ pvtimer' = s.pvtimer
  /\ tickAtEnd' = s.tickAtEnd
  /\ njobs' = s.njobs /\ jstate' = s.jstate /\ handoffs' = s.handoffs
  /\ trail' = s.trail /\ logtb' = s.logtb /\ collected' = s.collected
  /\ sink' = s.sink
  /\ sessions' = s.sessions /\ modules' = s.modules /\ visible' = s.visible
  /\ last' = [op |-> op, fut |-> f, outcome |-> s.ret]

Cb(kind, id) == [kind |-> kind, id |-> id]
Entry(cb, arg) == [cb |-> cb, arg |-> arg]
NoHandle == Cb("none", 0)

\* -------------------------------------------------------- callback queue
\* loop.call_soon: append to the tail of the queue.
loop_call_soon(s, cb, arg) ==
  [s EXCEPT !.queue = Append(@, Entry(cb, arg))]

\* core.call_soon: hands the callback to the loop.
call_soon(s, cb, arg) == loop_call_soon(s, cb, arg)

\* A host callback that re-enqueues itself every time it runs.
run_ticker(s, id) == call_soon(s, Cb("ticker", id), 0)

\* A host callback that runs and is gone.
run_once(s, id) == [s EXCEPT !.nran[id] = @ + 1]

\* ------------------------------------------------------------ disposal
\* Invoking a disposal handle: a timer still in the wheel is taken out of
\* it; an entry already in the queue keeps its slot and is skipped when
\* the pump comes to it.
dispose(s, h) ==
  LET Others(e) == e.h # h
  IN [s EXCEPT !.disposedH = @ \cup {h}, !.timers = SelectSeq(@, Others)]

\* A host callback that invokes the disposal handle it was given.
run_disposer(s, id, h) == dispose([s EXCEPT !.nran[id] = @ + 1], h)

\* Mutant: disposed entries are run like any other.
Skipped_never(s, e) == FALSE

\* The pump passes over an entry whose handle was disposed.
Skipped(s, e) == e.cb \in s.disposedH

\* ------------------------------------------------------------ timer wheel
TimerEntry(h, fire) == [h |-> h, fire |-> fire]

\* loop.call_later: insert a Timer Entry at now + delay.
loop_call_later(s, delay, cb) ==
  [s EXCEPT !.timers = Append(@, TimerEntry(cb, s.now + delay))]

\* core.call_later: hands the callback to the loop.
call_later(s, interval, cb) == loop_call_later(s, interval, cb)

\* ui.Timer(callback, interval, repeat): a timer due after interval.
ui_Timer(s, kind, interval, repeat) ==
  LET id == s.ntimers + 1
  IN call_later([s EXCEPT !.ntimers = id,
                   !.handles = @ \cup {Cb(kind, id)},
                   !.tinfo[id] = [interval |-> interval, repeat |-> repeat]],
                interval, Cb(kind, id))

\* The position in q of the entry due first: the least fire time, and
\* among equals the one inserted first.
Earliest(q) ==
  CHOOSE i \in 1..Len(q) :
    \A j \in 1..Len(q) :
      q[i].fire < q[j].fire \/ (q[i].fire = q[j].fire /\ i <= j)

RECURSIVE ByFireTime(_)
ByFireTime(q) ==
  IF q = << >> THEN << >>
  ELSE LET i == Earliest(q)
       IN << q[i] >> \o ByFireTime(SubSeq(q, 1, i - 1) \o SubSeq(q, i + 1, Len(q)))

RECURSIVE enqueue_timers(_, _)
enqueue_timers(s, es) ==
  IF es = << >> THEN s
  ELSE enqueue_timers(loop_call_soon(s, Head(es).h, Head(es).fire), Tail(es))

\* Mutant: the due entries are promoted in the order they were inserted.
promote_due_unsorted(s, t) ==
  LET Due(e) == e.fire <= t
      Later(e) == e.fire > t
      due == SelectSeq(s.timers, Due)
  IN enqueue_timers([s EXCEPT !.timers = SelectSeq(@, Later),
                              !.promoted = due], due)

\* promote_due(now): the entries with fire_time <= now leave the wheel for
\* the queue, by fire time and then by insertion.
promote_due(s, t) ==
  LET Due(e) == e.fire <= t
      Later(e) == e.fire > t
      due == ByFireTime(SelectSeq(s.timers, Due))
  IN enqueue_timers([s EXCEPT !.timers = SelectSeq(@, Later),
                              !.promoted = due], due)

\* Mutant: the view never stops its timer.
on_tick_forever(s) == [s EXCEPT !.tick = @ + 1]

\* ProblemsView.on_tick
on_tick(s) ==
  LET s1 == IF s.finished THEN dispose(s, s.pvtimer) ELSE s
  IN [s1 EXCEPT !.tick = @ + 1]

\* The callback of a timer: on_tick for the view's timer, else one that
\* only runs.
timer_callback(s, h) == IF h.kind = "on_tick" THEN on_tick(s) ELSE s

\* Mutant: a repeating timer is re-inserted whether disposed or not.
fire_timer_always(s, h, fire) ==
  LET s1 == timer_callback(s, h)
  IN IF s1.tinfo[h.id].repeat
     THEN [s1 EXCEPT !.timers =
             Append(@, TimerEntry(h, fire + s1.tinfo[h.id].interval))]
     ELSE s1

\* A promoted timer entry runs: its callback, then a repeating timer that
\* was not disposed goes back into the wheel, due one interval later.
fire_timer(s, h, fire) ==
  LET s1 == timer_callback(s, h)
  IN IF s1.tinfo[h.id].repeat /\ h \notin s1.disposedH
     THEN [s1 EXCEPT !.timers =
             Append(@, TimerEntry(h, fire + s1.tinfo[h.id].interval))]
     ELSE s1

\* ProblemsView.__init__
ProblemsView_init(s) ==
  LET s1 == ui_Timer(s, "on_tick", TickInterval, TRUE)
  IN [s1 EXCEPT !.pvtimer = Cb("on_tick", s1.ntimers), !.tick = 0]

\* ------------------------------------------------------- the modules view
\* The loop of updated over debugger.sessions: the first session with
\* modules makes the view visible and ends the loop.
RECURSIVE scan_sessions(_, _)
scan_sessions(s, q) ==
  IF q = << >> THEN s
  ELSE IF s.modules[Head(q)] > 0 THEN [s EXCEPT !.visible = TRUE]
  ELSE scan_sessions(s, Tail(q))

\* Mutant: _visible is not reset before the loop.
updated_sticky(s) == scan_sessions(s, s.sessions)

\* ModulesTabbedView.updated
updated(s) == scan_sessions([s EXCEPT !.visible = FALSE], s.sessions)

\* ------------------------------------------------------------- Future
\* A subscriber callback: records that it ran and the state it was handed.
run_sub(s, id, f) ==
  [s EXCEPT !.delivered =
     Append(@, [sub |-> id, fut |-> f, seen |-> s.fstate[f]])]

RECURSIVE schedule_from(_, _, _)
schedule_from(s, f, cbs) ==
  IF cbs = << >> THEN s
  ELSE schedule_from(loop_call_soon(s, Head(cbs), f), f, Tail(cbs))

\* Mutant: the callback list is not cleared.
schedule_callbacks_keep(s, f) == schedule_from(s, f, s.fcbs[f])

\* Future.__schedule_callbacks: clear the list, call_soon each in order.
schedule_callbacks(s, f) ==
  schedule_from([s EXCEPT !.fcbs[f] = << >>], f, s.fcbs[f])

\* Mutant: no check of the state.
set_result_unchecked(s, f, v) ==
  schedule_callbacks([s EXCEPT !.fval[f] = v, !.fstate[f] = "Done"], f)

\* Future.set_result
set_result(s, f, v) ==
  IF s.fstate[f] # "Pending" THEN [s EXCEPT !.ret = InvalidState]
  ELSE schedule_callbacks(
         [s EXCEPT !.fval[f] = v, !.fstate[f] = "Done"], f)

\* Future.set_exception
set_exception(s, f, e) ==
  IF s.fstate[f] # "Pending" THEN [s EXCEPT !.ret = InvalidState]
  ELSE schedule_callbacks(
         [s EXCEPT !.fval[f] = e, !.fstate[f] = "Failed", !.logtb[f] = TRUE], f)

\* Mutant: no check of the state.
Future_cancel_unchecked(s, f) ==
  [schedule_callbacks([s EXCEPT !.fstate[f] = "Cancelled"], f)
     EXCEPT !.ret = "True"]

\* Future.cancel
Future_cancel(s, f) ==
  IF s.fstate[f] # "Pending" THEN [s EXCEPT !.ret = "False"]
  ELSE [schedule_callbacks([s EXCEPT !.fstate[f] = "Cancelled"], f)
          EXCEPT !.ret = "True"]

\* Mutant: on a resolved future the callback is invoked at once.
add_done_callback_sync(s, f, cb) ==
  IF s.fstate[f] # "Pending"
  THEN IF cb.kind = "sub" THEN run_sub(s, cb.id, f) ELSE loop_call_soon(s, cb, f)
  ELSE [s EXCEPT !.fcbs[f] = Append(@, cb)]

\* Future.add_done_callback
add_done_callback(s, f, cb) ==
  IF s.fstate[f] # "Pending" THEN loop_call_soon(s, cb, f)
  ELSE [s EXCEPT !.fcbs[f] = Append(@, cb)]

\* Future.result, as the pair raised/value: what a caller gets back, or the
\* exception raised to it.
Future_result(s, f) ==
  CASE s.fstate[f] = "Cancelled" -> [raised |-> TRUE, val |-> CancelledError]
    [] s.fstate[f] = "Pending" -> [raised |-> TRUE, val |-> InvalidState]
    [] s.fstate[f] = "Failed" -> [raised |-> TRUE, val |-> s.fval[f]]
    [] OTHER -> [raised |-> FALSE, val |-> s.fval[f]]

\* --------------------------------------------------------------- Task
\* The coroutine bodies run() is given: `await F`, then return the awaited
\* value or raise; a body may catch the CancelledError raised at its await.
\* What one send()/throw() does: yield the awaited future, return, or raise.
AwaitRaised(b, x) ==
  IF x = CancelledError /\ b.catches
  THEN [kind |-> "return", val |-> CaughtValue, req |-> FALSE,
        evts |-> << "throw", "caught", "return" >>]
  ELSE [kind |-> "raise", val |-> x, req |-> FALSE,
        evts |-> << "throw", IF x = CancelledError THEN "cancelled" ELSE "raise" >>]

\* The body from its await on, the awaited future resolved: pre is what
\* the body did in this step before. An await of a future that has
\* already failed raises in the body without a suspension ("await_raised"),
\* which is not a throw() into it.
AfterAwait(s, b, pre) ==
  LET r == Future_result(s, b.awaits)
      last_ == b.cancels = "last"
      mid == IF last_ THEN << "cancel" >> ELSE << >>
      a == AwaitRaised(b, r.val)
  IN IF r.raised
     THEN [a EXCEPT !.evts = pre \o << "await_raised" >> \o Tail(@),
                    !.req = pre = << "cancel" >>]
     ELSE IF b.ends = "return"
          THEN [kind |-> "return", val |-> r.val,
                req |-> last_ \/ pre = << "cancel" >>,
                evts |-> pre \o mid \o << "return" >>]
          ELSE [kind |-> "raise", val |-> BodyError,
                req |-> last_ \/ pre = << "cancel" >>,
                evts |-> pre \o mid \o << "raise" >>]

\* One send() or throw() into the coroutine: what the body does until it
\* yields, returns or raises, and whether it has asked for its own Task
\* to be cancelled on the way (req).
CoroAdvance(s, t, exc) ==
  LET b == s.tbody[t]
      first == IF b.cancels = "first" THEN << "cancel" >> ELSE << >>
  IN IF s.tpc[t] = "created"
     THEN IF exc # None
          THEN [kind |-> "raise", val |-> exc, req |-> FALSE,
                evts |-> << "throw", IF exc = CancelledError
                                     THEN "cancelled" ELSE "raise" >>]
          ELSE IF s.fstate[b.awaits] = "Pending"
               THEN [kind |-> "yield", val |-> b.awaits,
                     req |-> first # << >>, evts |-> first \o << "suspend" >>]
               ELSE AfterAwait(s, b, first)
     ELSE IF exc # None THEN AwaitRaised(b, exc)
          ELSE AfterAwait(s, b, << "resume" >>)

\* Task.cancel, called on a Task whose body is running: there is no
\* future to pass the cancel to, it is noted in _must_cancel.
Task_cancel_running(s, t) == [s EXCEPT !.mustCancel[t] = TRUE]

\* Mutant: a cancel noted while the body ran is not passed on.
Task_suspend_forget(s, t, f) ==
  [add_done_callback(s, f, Cb("wakeup", t))
     EXCEPT !.tpc[t] = "suspended", !.waiter[t] = f]

\* Task.__step, the body has yielded f: subscribe the wakeup, and pass a
\* cancel noted while the body ran on to f.
Task_suspend(s, t, f) ==
  LET s1 == [add_done_callback(s, f, Cb("wakeup", t))
               EXCEPT !.tpc[t] = "suspended", !.waiter[t] = f]
      c == Future_cancel(s1, f)
  IN IF ~s1.mustCancel[t] THEN s1
     ELSE IF c.ret = "True"
          THEN [c EXCEPT !.mustCancel[t] = FALSE, !.ret = s1.ret]
          ELSE s1

\* Task.__step
Task_step(s, t, exc) ==
  IF s.fstate[t] # "Pending"
  THEN [s EXCEPT !.unhandled = @ \cup {InvalidState}]
  ELSE
    LET x == IF s.mustCancel[t] THEN CancelledError ELSE exc
        s0 == [s EXCEPT !.mustCancel[t] = FALSE, !.waiter[t] = 0]
        r == CoroAdvance(s0, t, x)
        s1 == [(IF r.req THEN Task_cancel_running(s0, t) ELSE s0)
                 EXCEPT !.trail[t] = @ \o r.evts]
    IN CASE r.kind = "return" /\ s1.mustCancel[t] ->
              set_exception([s1 EXCEPT !.tpc[t] = "finished",
                                       !.mustCancel[t] = FALSE],
                            t, CancelledError)
         [] r.kind = "return" ->
              set_result([s1 EXCEPT !.tpc[t] = "finished"], t, r.val)
         [] r.kind = "raise" /\ r.val = CancelledError ->
              [Future_cancel([s1 EXCEPT !.tpc[t] = "finished"], t)
                 EXCEPT !.ret = s1.ret]
         [] r.kind = "raise" ->
              set_exception([s1 EXCEPT !.tpc[t] = "finished"], t, r.val)
         [] OTHER -> Task_suspend(s1, t, r.val)

\* Task.__wakeup: the result of the awaited future is retrieved.
Task_wakeup(s, t, f) ==
  LET r == Future_result(s, f)
      s1 == [s EXCEPT !.logtb[f] = FALSE]
  IN IF r.raised THEN Task_step(s1, t, r.val) ELSE Task_step(s1, t, None)

\* Mutant: the constructor runs the first step itself.
Task_init_sync(s, t, b) ==
  Task_step([s EXCEPT !.tpc[t] = "created", !.tbody[t] = b], t, None)

\* Task.__init__: the first step is handed to the loop.
Task_init(s, t, b) ==
  loop_call_soon([s EXCEPT !.tpc[t] = "created", !.tbody[t] = b],
                 Cb("step", t), 0)

\* Mutant: the task's own future is cancelled, the awaited one left alone.
Task_cancel_direct(s, t) ==
  IF s.fstate[t] # "Pending" THEN [s EXCEPT !.ret = "False"]
  ELSE [Future_cancel(s, t) EXCEPT
          !.cancelSusp = IF s.waiter[t] # 0 /\ s.fstate[s.waiter[t]] = "Pending"
                         THEN @ \cup {t} ELSE @]

\* Task.cancel
Task_cancel(s, t) ==
  IF s.fstate[t] # "Pending" THEN [s EXCEPT !.ret = "False"]
  ELSE
    LET w == s.waiter[t]
        s1 == IF w # 0 THEN Future_cancel(s, w) ELSE s
    IN IF w # 0 /\ s1.ret = "True"
       THEN [s1 EXCEPT !.cancelSusp = @ \cup {t}]
       ELSE [s EXCEPT !.mustCancel[t] = TRUE, !.ret = "True"]

\* ---------------------------------------------------------------- run
\* A handler invocation: logged; on_success may itself raise.
Invoke(s, r, handler, arg) ==
  [s EXCEPT !.calls = Append(@, [run |-> r, handler |-> handler, arg |-> arg])]

\* Mutant: on_error is kept for an Exception, and CancelledError is none.
done_except_Exception(s0, r, task) ==
  LET c == s0.runcfg[r]
      res == Future_result(s0, task)
      s == [s0 EXCEPT !.logtb[task] = FALSE]
  IN IF c.hasE /\ res.raised /\ res.val # CancelledError
     THEN Invoke(s, r, "on_error", res.val)
     ELSE IF res.raised THEN [s EXCEPT !.unhandled = @ \cup {res.val}]
     ELSE IF c.hasS THEN Invoke(s, r, "on_success", res.val)
     ELSE s

\* run.done, the completion callback run() attaches.
done(s0, r, task) ==
  LET c == s0.runcfg[r]
      res == Future_result(s0, task)
      s == [s0 EXCEPT !.logtb[task] = FALSE]
  IN IF c.hasE
     THEN IF res.raised THEN Invoke(s, r, "on_error", res.val)
          ELSE IF ~c.hasS THEN s
          ELSE IF c.sRaises
               THEN Invoke(Invoke(s, r, "on_success", res.val),
                           r, "on_error", HandlerError)
               ELSE Invoke(s, r, "on_success", res.val)
     ELSE IF c.hasS
          THEN IF res.raised
               THEN [s EXCEPT !.unhandled = @ \cup {res.val}]
               ELSE IF c.sRaises
                    THEN [Invoke(s, r, "on_success", res.val)
                            EXCEPT !.unhandled = @ \cup {HandlerError}]
                    ELSE Invoke(s, r, "on_success", res.val)
          ELSE s0

\* loop.call_exception_handler: the diagnostic sink.
call_exception_handler(s, e) == [s EXCEPT !.sink = @ \cup {e}]

\* Mutant: a future is collected without a word.
Future_del_silent(s, f) == s

\* Future.__del__: a stored exception nobody retrieved is handed to the
\* loop's exception handler.
Future_del(s, f) ==
  IF s.logtb[f] THEN call_exception_handler(s, s.fval[f]) ELSE s

\* asyncio.ensure_future: a future is returned as it is, a coroutine is
\* wrapped in a new Task.  aw is a future id (tid = 0), or a body with
\* tid the id the new Task gets.
ensure_future(s, aw, tid) ==
  IF tid = 0 THEN [s EXCEPT !.ret = aw]
  ELSE [Task_init(s, tid, aw) EXCEPT !.ret = tid]

\* run(awaitable, on_success, on_error)
run(s, aw, tid, hasS, hasE, sRaises) ==
  LET s1 == ensure_future(s, aw, tid)
      task == s1.ret
      r == s.nruns + 1
      s2 == [s1 EXCEPT !.nruns = r,
               !.runcfg[r] = [hasS |-> hasS, hasE |-> hasE,
                              sRaises |-> sRaises, fut |-> task],
               !.ret = "ok"]
  IN IF hasE \/ hasS THEN add_done_callback(s2, task, Cb("done", r))
     ELSE s2

\* ------------------------------------------------------------- gather
Range(q) == {q[i] : i \in 1..Len(q)}

\* The slot gather fills for a child: CancelledError, its exception, or
\* its result.
ChildRes(s, c) ==
  IF s.fstate[c] = "Cancelled" THEN CancelledError ELSE s.fval[c]

\* gather._done_callback
gather_done(s, f) ==
  LET s1 == [s EXCEPT !.nfinished = @ + 1]
      nfuts == Cardinality(Range(s.gchildren))
  IN IF s1.fstate[Outer] # "Pending" THEN s1
     ELSE IF ~s1.gretexc /\ s1.fstate[f] = "Cancelled"
          THEN set_exception(s1, Outer, CancelledError)
     ELSE IF ~s1.gretexc /\ s1.fstate[f] = "Failed"
          THEN set_exception(s1, Outer, s1.fval[f])
     ELSE IF s1.nfinished = nfuts
          THEN set_result(
                 [s1 EXCEPT !.gresult =
                    [i \in 1..Len(s1.gchildren) |-> ChildRes(s1, s1.gchildren[i])]],
                 Outer, "list")
     ELSE s1

\* asyncio.gather: one _done_callback per distinct argument, in argument
\* order; the children keep the arguments' order and repetitions.
RECURSIVE gather_add(_, _, _)
gather_add(s, args, seen) ==
  IF args = << >> THEN s
  ELSE IF Head(args) \in seen THEN gather_add(s, Tail(args), seen)
  ELSE gather_add(add_done_callback(s, Head(args), Cb("gather", 0)),
                  Tail(args), seen \cup {Head(args)})

asyncio_gather(s, args, return_exceptions) ==
  gather_add([s EXCEPT !.gchildren = args,
                !.gretexc = return_exceptions, !.nfinished = 0],
             args, {})

\* Mutant: return_exceptions passed on the wrong way round.
gather_collecting(s, args) == asyncio_gather(s, args, TRUE)

gather_results_failfast(s, args) == asyncio_gather(s, args, FALSE)

\* gather(*coros_or_futures)
gather(s, args) == asyncio_gather(s, args, FALSE)

\* gather_results(*coros_or_futures)
gather_results(s, args) == asyncio_gather(s, args, TRUE)

\* ------------------------------------------------------------ offload
WorkerValue == "wv"
WorkerError == "we"

\* ThreadPoolExecutor.submit: the call waits in the executor's work queue.
executor_submit(s, j) == [s EXCEPT !.jstate[j] = "queued"]

\* asyncio.wrap_future: a new future of the loop, chained to the
\* executor's: _call_check_cancel subscribes to the new future,
\* _call_set_state to the executor's.
wrap_future(s, j) == add_done_callback(s, JobFut(j), Cb("check_cancel", j))

\* run_in_executor(func, *args)
run_in_executor(s, j) ==
  [wrap_future(executor_submit([s EXCEPT !.njobs = j], j), j)
     EXCEPT !.ret = JobFut(j)]

\* loop.call_soon_threadsafe: the enqueue other threads may use.
loop_call_soon_threadsafe(s, cb, arg) == loop_call_soon(s, cb, arg)

\* _copy_future_state, run by the loop: a cancelled future is left
\* alone; else it takes the outcome of the executor's future.
copy_future_state(s, j) ==
  LET f == JobFut(j)
  IN CASE s.fstate[f] = "Cancelled" -> s
       [] s.jstate[j] = "cancelled" -> Future_cancel(s, f)
       [] s.jstate[j] = "raised" -> set_exception(s, f, WorkerError)
       [] OTHER -> set_result(s, f, WorkerValue)

\* Mutant: the thread that completes the call resolves the future itself.
call_set_state_direct(s, j) == copy_future_state(s, j)

\* _call_set_state, run by the thread that completes the executor's
\* future: the copy is handed to the loop.
call_set_state(s, j) ==
  loop_call_soon_threadsafe(s, Cb("set_state", j), JobFut(j))

\* _call_check_cancel, run by the loop when the new future is resolved:
\* a cancel is passed on to the executor's future, which takes it only
\* while the call has not started.
check_cancel(s, j) ==
  IF s.fstate[JobFut(j)] = "Cancelled" /\ s.jstate[j] = "queued"
  THEN call_set_state([s EXCEPT !.jstate[j] = "cancelled"], j)
  ELSE s

Running(s) == {j \in Jobs : s.jstate[j] = "running"}
Queued(s) == {j \in Jobs : s.jstate[j] = "queued"}

\* Mutant: a call submitted while every worker is busy is started all the
\* same.
CanStart_unbounded(s) == Queued(s) # {}

\* A worker thread is free to take the next call of the work queue.
CanStart(s) == Queued(s) # {} /\ Cardinality(Running(s)) < max_workers

\* A worker thread takes the call that has waited longest.
worker_start(s) ==
  LET j == CHOOSE k \in Queued(s) : \A m \in Queued(s) : k <= m
  IN [s EXCEPT !.jstate[j] = "running", !.ret = j]

\* The call returns or raises on its worker thread: the executor's future
\* takes the outcome and runs its done callbacks there.
worker_finish(s, j, ok) ==
  call_set_state([s EXCEPT !.jstate[j] = IF ok THEN "returned" ELSE "raised",
                           !.handoffs[j] = @ + 1], j)

\* ------------------------------------------------------------- dispatch
RunEntry(s, e) ==
  CASE e.cb.kind = "sub" -> run_sub(s, e.cb.id, e.arg)
    [] e.cb.kind = "step" -> Task_step(s, e.cb.id, None)
    [] e.cb.kind = "wakeup" -> Task_wakeup(s, e.cb.id, e.arg)
    [] e.cb.kind = "done" -> done(s, e.cb.id, e.arg)
    [] e.cb.kind = "gather" -> gather_done(s, e.arg)
    [] e.cb.kind = "ticker" -> run_ticker(s, e.cb.id)
    [] e.cb.kind = "once" -> run_once(s, e.cb.id)
    [] e.cb.kind = "dispose" -> run_disposer(s, e.cb.id, e.arg)
    [] e.cb.kind \in {"timer", "on_tick"} -> fire_timer(s, e.cb, e.arg)
    [] e.cb.kind = "set_state" -> copy_future_state(s, e.cb.id)
    [] e.cb.kind = "check_cancel" -> check_cancel(s, e.cb.id)
    [] OTHER -> s

RECURSIVE RunN(_, _)
RunN(s, k) ==
  IF k = 0 THEN s
  ELSE LET e == Head(s.queue)
           s0 == [s EXCEPT !.queue = Tail(@)]
           s1 == [s0 EXCEPT !.executed = Append(@, e)]
       IN IF Skipped(s0, e) THEN RunN(s0, k - 1)
          ELSE RunN(RunEntry(s1, e), k - 1)

\* Mutant: the pump goes on with what the callbacks it ran have enqueued.
RECURSIVE RunWhile(_, _)
RunWhile(s, k) ==
  IF k = 0 \/ s.queue = << >> THEN s
  ELSE LET e == Head(s.queue)
           s0 == [s EXCEPT !.queue = Tail(@)]
           s1 == [s0 EXCEPT !.executed = Append(@, e)]
       IN IF Skipped(s0, e) THEN RunWhile(s0, k - 1)
          ELSE RunWhile(RunEntry(s1, e), k - 1)

pump_once_drain(s) ==
  RunWhile([s EXCEPT !.executed = << >>, !.pumpTick = ~@], 2 * Len(s.queue))

\* pump_once: run the entries present when the call starts.
pump_once(s) ==
  RunN([s EXCEPT !.executed = << >>, !.pumpTick = ~@], Len(s.queue))

\* ------------------------------------------------------------- actions
SetResult(f, v) == Commit(set_result(St, f, v), "set_result", f)

SetException(f, e) == Commit(set_exception(St, f, e), "set_exception", f)

FutureCancel(f) == Commit(Future_cancel(St, f), "cancel", f)

AddDoneCallback(f) ==
  /\ nsubs < MaxSubs
  /\ LET id == nsubs + 1
         s1 == [St EXCEPT !.nsubs = id, !.subOf[id] = f,
                  !.late = IF fstate[f] # "Pending" THEN @ \cup {id} ELSE @]
     IN Commit(add_done_callback(s1, f, Cb("sub", id)), "add_done_callback", f)

\* The host hands the loop a callback: one that re-enqueues itself
\* ("ticker") or one that runs and is gone ("once").
CallSoon(kind) ==
  /\ ncalls < MaxCalls
  /\ LET id == ncalls + 1
     IN Commit(call_soon([St EXCEPT !.ncalls = id,
                                    !.handles = @ \cup {Cb(kind, id)}],
                         Cb(kind, id), 0),
               "call_soon", 0)

\* A pump of an empty queue runs nothing.
PumpOnce ==
  /\ queue # << >>
  /\ Commit(pump_once(St), "pump_once", 0)

\* The host offloads a call.
Offload ==
  /\ njobs < MaxJobs
  /\ Commit(run_in_executor(St, njobs + 1), "run_in_executor", JobFut(njobs + 1))

WorkerStart ==
  /\ CanStart(St)
  /\ Commit(worker_start(St), "worker_start", 0)

WorkerFinish(j, ok) ==
  /\ jstate[j] = "running"
  /\ Commit(worker_finish(St, j, ok), "worker_finish", JobFut(j))

\* The host hands the loop a callback that disposes the handle h.
CallSoonDisposer(h) ==
  /\ ncalls < MaxCalls
  /\ LET id == ncalls + 1
     IN Commit(call_soon([St EXCEPT !.ncalls = id,
                                    !.handles = @ \cup {Cb("dispose", id)}],
                         Cb("dispose", id), h),
               "call_soon", 0)

\* The host invokes a disposal handle it holds.
Dispose(h) == Commit(dispose(St, h), "dispose", h.id)

\* The handles the host holds of timers it created.
TimerHandles == {h \in handles : h.kind = "timer"}

Delays == 1..MaxNow

\* The host creates a timer.
NewTimer(d, repeat) ==
  /\ ntimers < MaxTimers
  /\ Commit(ui_Timer(St, "timer", d, repeat), "call_later", 0)

\* The problems view is opened.
NewProblemsView ==
  /\ pvtimer = NoHandle
  /\ Commit(ProblemsView_init(St), "ProblemsView", 0)

\* The debugger starts a session: it has no modules yet, and the modules
\* view is not told.
SessionAdded(x) ==
  /\ Len(sessions) < MaxSessions
  /\ \A i \in 1..Len(sessions) : sessions[i] # x
  /\ Commit([St EXCEPT !.sessions = Append(@, x), !.modules[x] = 0],
            "session_added", x)

\* A session reports its modules: on_session_modules_updated fires.
ModulesUpdated(x, n) ==
  /\ \E i \in 1..Len(sessions) : sessions[i] = x
  /\ Commit(updated([St EXCEPT !.modules[x] = n]), "modules_updated", x)

\* The debugger removes a session, then on_session_removed fires.
SessionRemoved(x) ==
  /\ \E i \in 1..Len(sessions) : sessions[i] = x
  /\ Commit(updated([St EXCEPT
                       !.sessions = SelectSeq(@, LAMBDA y : y # x)]),
            "session_removed", x)

\* The terminal the view shows comes to its end.
TerminalFinished ==
  /\ ~finished
  /\ Commit([St EXCEPT !.finished = TRUE, !.tickAtEnd = tick],
            "finished", 0)

\* The host's clock moves on.
Advance ==
  /\ now < MaxNow
  /\ Commit([St EXCEPT !.now = @ + 1], "advance", 0)

\* One tick of the host loop: promote the due timers, then pump.
HostTick ==
  /\ queue # << >> \/ \E i \in 1..Len(timers) : timers[i].fire <= now
  /\ Commit(pump_once(promote_due(St, now)), "tick", 0)

TaskCancel(t) ==
  /\ tpc[t] # "none"
  /\ Commit(Task_cancel(St, t), "task_cancel", t)

Bodies ==
  [awaits : Plain, ends : {"return", "raise"}, catches : BOOLEAN,
   cancels : {"never"}]

\* Bodies that ask for their own Task to be cancelled while they run:
\* before their await ("first") or after it ("last").
CoopBodies ==
  [awaits : Plain, ends : {"return", "raise"}, catches : BOOLEAN,
   cancels : {"first", "last"}]

FreeTasks == {t \in TaskIds : tpc[t] = "none"}

RunCoroutine(b, hasS, hasE, sRaises) ==
  /\ nruns < MaxRuns
  /\ FreeTasks # {}
  /\ LET tid == CHOOSE t \in FreeTasks : \A u \in FreeTasks : t <= u
     IN Commit(run(St, b, tid, hasS, hasE, sRaises), "run", tid)

RunFuture(f, hasS, hasE, sRaises) ==
  /\ nruns < MaxRuns
  /\ Commit(run(St, f, 0, hasS, hasE, sRaises), "run", f)

\* A finished Task nobody refers to any more is garbage collected.
Referenced(t) ==
  \/ \E i \in 1..Len(queue) : queue[i].arg = t
  \/ \E i \in 1..Len(fcbs[t]) : fcbs[t][i].kind = "done"

Collect(t) ==
  /\ tpc[t] = "finished"
  /\ t \notin collected
  /\ ~Referenced(t)
  /\ Commit(Future_del([St EXCEPT !.collected = @ \cup {t}], t), "collect", t)

\* The gather inputs are resolved by their owners; the order is recorded.
Note(s, f) ==
  IF fstate[f] = "Pending" /\ s.fstate[f] # "Pending"
  THEN [s EXCEPT !.order = Append(@, f)] ELSE s

InputSetResult(f) ==
  /\ fstate[f] = "Pending"
  /\ Commit(Note(set_result(St, f, ValOf(f)), f), "set_result", f)

InputSetException(f) ==
  /\ fstate[f] = "Pending"
  /\ Commit(Note(set_exception(St, f, ErrOf(f)), f), "set_exception", f)

InputCancel(f) ==
  /\ fstate[f] = "Pending"
  /\ Commit(Note(Future_cancel(St, f), f), "cancel", f)

Gather(args) ==
  /\ gactive = "none"
  /\ Commit(gather([St EXCEPT !.gatherAt = Len(order), !.gactive = "gather"],
                   args),
            "gather", Outer)

GatherResults(args) ==
  /\ gactive = "none"
  /\ Commit(gather_results([St EXCEPT !.gatherAt = Len(order),
                                      !.gactive = "gather_results"],
                           args),
            "gather_results", Outer)

\* The argument lists, up to a renaming of the futures: the first new
\* future of a list is 1, the next 2, ...; a future may be passed twice.
GatherArgs ==
  {a \in [1..NGather -> GIn] :
     \A i \in 1..NGather :
       a[i] = 1 \/ \E j \in 1..(i - 1) : a[j] = a[i] - 1}

NoBody == [awaits |-> 0, ends |-> "none", catches |-> FALSE, cancels |-> "never"]
NoTimer == [interval |-> 0, repeat |-> FALSE]
NoRun == [hasS |-> FALSE, hasE |-> FALSE, sRaises |-> FALSE, fut |-> 0]

InitCommon ==
  /\ fstate = [f \in FutIds |-> "Pending"]
  /\ fval = [f \in FutIds |-> None]
  /\ fcbs = [f \in FutIds |-> << >>]
  /\ queue = << >>
  /\ tpc = [t \in TaskIds |-> "none"]
  /\ tbody = [t \in TaskIds |-> NoBody]
  /\ waiter = [t \in TaskIds |-> 0]
  /\ mustCancel = [t \in TaskIds |-> FALSE]
  /\ nsubs = 0
  /\ subOf = [i \in 1..MaxSubs |-> 0]
  /\ delivered = << >>
  /\ late = {}
  /\ nruns = 0
  /\ runcfg = [r \in 1..MaxRuns |-> NoRun]
  /\ calls = << >>
  /\ unhandled = {}
  /\ gactive = "none"
  /\ gchildren = << >>
  /\ gretexc = FALSE
  /\ nfinished = 0
  /\ gresult = << >>
  /\ order = << >>
  /\ gatherAt = 0
  /\ cancelSusp = {}
  /\ executed = << >>
  /\ pumpTick = FALSE
  /\ ncalls = 0
  /\ timers = << >>
  /\ tinfo = [i \in TimerIds |-> NoTimer]
  /\ now = 0
  /\ ntimers = 0
  /\ handles = {}
  /\ disposedH = {}
  /\ promoted = << >>
  /\ nran = [i \in 1..MaxCalls |-> 0]
  /\ tick = 0
  /\ finished = FALSE
  /\ pvtimer = NoHandle
  /\ tickAtEnd = 0
  /\ njobs = 0
  /\ jstate = [j \in Jobs |-> "none"]
  /\ handoffs = [j \in Jobs |-> 0]
  /\ trail = [t \in TaskIds |-> << >>]
  /\ logtb = [f \in FutIds |-> FALSE]
  /\ collected = {}
  /\ sink = {}
  /\ sessions = << >>
  /\ modules = [x \in SessionIds |-> 0]
  /\ visible = FALSE
  /\ last = [op |-> "init", fut |-> 0, outcome |-> "ok"]

Init == InitCommon

Next ==
  \/ \E f \in Plain, v \in Values : SetResult(f, v)
  \/ \E f \in Plain, e \in Errors : SetException(f, e)
  \/ \E f \in Plain : FutureCancel(f)
  \/ \E f \in Plain : AddDoneCallback(f)
  \/ PumpOnce

Spec == Init /\ [][Next]_vars

\* run() and Tasks over the same futures.
NextRun ==
  \/ \E f \in Plain, v \in Values : SetResult(f, v)
  \/ \E f \in Plain, e \in Errors : SetException(f, e)
  \/ \E f \in Plain : FutureCancel(f)
  \/ \E b \in Bodies, hs \in BOOLEAN, he \in BOOLEAN, sr \in BOOLEAN :
       RunCoroutine(b, hs, he, hs /\ sr)
  \/ \E f \in Plain, hs \in BOOLEAN, he \in BOOLEAN, sr \in BOOLEAN :
       RunFuture(f, hs, he, hs /\ sr)
  \/ \E t \in TaskIds : TaskCancel(t)
  \/ PumpOnce

SpecRun == Init /\ [][NextRun]_vars

\* The same, with Tasks that are dropped once they have finished.
NextReport ==
  \/ NextRun
  \/ \E t \in TaskIds : Collect(t)

SpecReport == Init /\ [][NextReport]_vars

\* The same, with bodies that cancel their own Task while they run.
NextCoop ==
  \/ NextRun
  \/ \E b \in CoopBodies, hs \in BOOLEAN, he \in BOOLEAN :
       RunCoroutine(b, hs, he, FALSE)

SpecCoop == Init /\ [][NextCoop]_vars

\* gather() and gather_results() over futures resolved by their owners.
NextGather ==
  \/ \E f \in GIn : InputSetResult(f)
  \/ \E f \in GIn : InputSetException(f)
  \/ \E f \in GIn : InputCancel(f)
  \/ \E args \in GatherArgs : Gather(args)
  \/ \E args \in GatherArgs : GatherResults(args)
  \/ PumpOnce

SpecGather == Init /\ [][NextGather]_vars

\* The callback queue alone, fed by the host.
NextQueue ==
  \/ \E kind \in {"ticker", "once"} : CallSoon(kind)
  \/ PumpOnce

SpecQueue == Init /\ [][NextQueue]_vars

\* The callback queue with disposal handles.
NextDispose ==
  \/ CallSoon("once")
  \/ \E h \in handles : CallSoonDisposer(h)
  \/ \E h \in handles : Dispose(h)
  \/ PumpOnce

SpecDispose == Init /\ [][NextDispose]_vars

\* Offloaded calls, their workers, and a host that may cancel.
NextOffload ==
  \/ njobs < MaxOffload /\ Offload
  \/ WorkerStart
  \/ \E j \in Jobs, ok \in BOOLEAN : WorkerFinish(j, ok)
  \/ \E j \in 1..njobs : FutureCancel(JobFut(j))
  \/ PumpOnce

SpecOffload == Init /\ [][NextOffload]_vars

\* The worker pool under load: every call ends, the host keeps pumping.
NextPool ==
  \/ Offload
  \/ WorkerStart
  \/ \E j \in Jobs : WorkerFinish(j, j % 2 = 1)
  \/ PumpOnce

\* The steps of WorkerStart, WorkerFinish(j, .) and PumpOnce, told by the
\* variable each of them alone changes.
StartStep ==
  /\ CanStart(St)
  /\ jstate' = worker_start(St).jstate

FinishStep(j) ==
  /\ jstate[j] = "running"
  /\ jstate' = [jstate EXCEPT ![j] = IF j % 2 = 1 THEN "returned" ELSE "raised"]

PumpStep ==
  /\ queue # << >>
  /\ pumpTick' = ~pumpTick

\* A free worker takes the next call; every call ends; the host keeps
\* pumping.
FairPool ==
  /\ WF_jstate(StartStep)
  /\ \A j \in Jobs : WF_jstate(FinishStep(j))
  /\ WF_pumpTick(PumpStep)

SpecPool == Init /\ [][NextPool]_vars /\ FairPool

NextTimer ==
  \/ \E d \in Delays, r \in BOOLEAN : NewTimer(d, r)
  \/ Advance
  \/ HostTick

SpecTimer == Init /\ [][NextTimer]_vars

\* The problems view with its repeating timer, next to timers the host
\* creates and disposes.
NextProblems ==
  \/ NewProblemsView
  \/ TerminalFinished
  \/ \E d \in Delays, r \in BOOLEAN : ntimers < MaxOther /\ NewTimer(d, r)
  \/ \E h \in TimerHandles : ncalls < MaxDisposers /\ CallSoonDisposer(h)
  \/ \E h \in TimerHandles : Dispose(h)
  \/ Advance
  \/ HostTick

SpecProblems == Init /\ [][NextProblems]_vars

\* The debugger's sessions and the modules view that listens to them.
NextModules ==
  \/ \E x \in SessionIds : SessionAdded(x)
  \/ \E x \in SessionIds, n \in 0..MaxModules : ModulesUpdated(x, n)
  \/ \E x \in SessionIds : SessionRemoved(x)

SpecModules == Init /\ [][NextModules]_vars

\* ===================================================================
\* Properties
\* ===================================================================
Count(q, P(_)) == Cardinality({i \in 1..Len(q) : P(q[i])})

IsSubEntry(e, id) == e.cb = Cb("sub", id)

InQueue(id) == \E i \in 1..Len(queue) : IsSubEntry(queue[i], id)

\* How often subscription id is held: by its future, by the queue, by the log.
Held(id) ==
  LET IsCb(c) == c = Cb("sub", id)
      IsEn(e) == IsSubEntry(e, id)
      IsDl(d) == d.sub = id
  IN Count(fcbs[subOf[id]], IsCb) + Count(queue, IsEn) + Count(delivered, IsDl)

TimesDelivered(id) ==
  LET IsDl(d) == d.sub = id IN Count(delivered, IsDl)

\* C1: once a Future has left Pending no step changes its state or its
\* stored value or error, and a set_result or set_exception issued on it
\* ends with InvalidState; hence a Future leaves Pending at most once.
C1_SingleAssignment ==
  [][\A f \in FutIds :
       fstate[f] # "Pending" =>
         /\ fstate'[f] = fstate[f]
         /\ fval'[f] = fval[f]
         /\ (last'.op \in {"set_result", "set_exception"} /\ last'.fut = f
               => last'.outcome = InvalidState)]_vars

C1_Witness ==
  /\ last.op \in {"set_result", "set_exception"}
  /\ last.outcome = InvalidState
  /\ fstate[last.fut] \in {"Done", "Cancelled"}
  /\ fval[last.fut] \in Values \cup {None}

\* C2: every subscription is held exactly once (by its future while that is
\* Pending, else by the queue or delivered), deliveries on one future follow
\* subscription order, every subscriber sees the one terminal state the
\* first of cancel / set_result set, and the call that came second is
\* rejected and enqueues or delivers nothing.
C2_DeliveredOnceInOrder ==
  /\ [](/\ \A id \in 1..nsubs :
             /\ Held(id) = 1
             /\ (fstate[subOf[id]] = "Pending") =
                  (\E i \in 1..Len(fcbs[subOf[id]]) :
                     fcbs[subOf[id]][i] = Cb("sub", id))
        /\ \A i \in 1..Len(delivered) :
             /\ delivered[i].seen # "Pending"
             /\ delivered[i].seen = fstate[delivered[i].fut]
             /\ delivered[i].fut = subOf[delivered[i].sub]
             /\ \A j \in 1..Len(delivered) :
                  (i < j /\ delivered[i].fut = delivered[j].fut)
                    => delivered[i].sub < delivered[j].sub
             /\ \A k \in 1..Len(queue) :
                  (queue[k].cb.kind = "sub" /\ queue[k].arg = delivered[i].fut)
                    => delivered[i].sub < queue[k].cb.id
        /\ \A k, m \in 1..Len(queue) :
             (k < m /\ queue[k].cb.kind = "sub" /\ queue[m].cb.kind = "sub"
                /\ queue[k].arg = queue[m].arg)
               => queue[k].cb.id < queue[m].cb.id)
  /\ [][\A f \in Plain :
          (fstate[f] # "Pending" /\ last'.fut = f
             /\ last'.op \in {"set_result", "set_exception", "cancel"})
            => /\ last'.outcome \in {InvalidState, "False"}
               /\ UNCHANGED << fstate, fval, fcbs, queue, delivered >>]_vars

C2_Witness ==
  /\ Len(delivered) = 2
  /\ delivered[1].fut = delivered[2].fut
  /\ delivered[1].seen = "Cancelled"
  /\ last = [op |-> "set_result", fut |-> delivered[1].fut,
             outcome |-> InvalidState]

\* C3: a subscription made on an already resolved Future is not delivered
\* by the subscribing call, which appends it to the Callback Queue; it is
\* delivered by a later pump that found it in the queue, and only once.
C3_LateSubscription ==
  /\ [][\A id \in 1..MaxSubs :
          (id \notin late /\ id \in late')
            => /\ TimesDelivered(id)' = 0
               /\ delivered' = delivered
               /\ queue' = Append(queue, Entry(Cb("sub", id), subOf'[id]))]_vars
  /\ [][\A id \in late :
          TimesDelivered(id)' # TimesDelivered(id)
            => /\ pumpTick' # pumpTick
               /\ InQueue(id)
               /\ TimesDelivered(id) = 0
               /\ TimesDelivered(id)' = 1
               /\ ~InQueue(id)']_vars
  /\ [](\A id \in late : TimesDelivered(id) = 0 <=> InQueue(id))

C3_Witness ==
  \E id \in late :
    /\ TimesDelivered(id) = 1
    /\ ~InQueue(id)
    /\ last.op = "pump_once"

\* C7: cancel() on a Pending Future makes it Cancelled, moves every
\* subscriber to the Callback Queue in order with the future as argument
\* and returns True; on a resolved Future it returns False and changes
\* neither the state, the value, the subscribers nor the queue.
C7_Cancel ==
  [][\A f \in Plain :
       (last'.op = "cancel" /\ last'.fut = f) =>
         IF fstate[f] = "Pending"
         THEN /\ fstate'[f] = "Cancelled"
              /\ last'.outcome = "True"
              /\ fcbs'[f] = << >>
              /\ queue' = queue \o [i \in 1..Len(fcbs[f]) |->
                                      Entry(fcbs[f][i], f)]
              /\ \A g \in FutIds \ {f} :
                   fstate'[g] = fstate[g] /\ fcbs'[g] = fcbs[g]
              /\ UNCHANGED << fval, delivered >>
         ELSE /\ last'.outcome = "False"
              /\ UNCHANGED << fstate, fval, fcbs, queue, delivered >>]_vars

C7_Witness ==
  /\ last.op = "cancel"
  /\ last.outcome = "False"
  /\ fstate[last.fut] = "Done"
  /\ \E i \in 1..Len(delivered) :
       delivered[i].fut = last.fut /\ delivered[i].seen = "Done"

C7_WitnessTookEffect ==
  /\ last.op = "cancel"
  /\ last.outcome = "True"
  /\ \E i \in 1..Len(queue) :
       queue[i].arg = last.fut /\ queue[i].cb.kind = "sub"

Called(r, h) == \E i \in 1..Len(calls) : calls[i].run = r /\ calls[i].handler = h

\* C4: for a run() given both handlers, no completion invokes both
\* on_success and on_error.
C4_NeverBothHandlers ==
  \A r \in 1..nruns :
    (runcfg[r].hasS /\ runcfg[r].hasE)
      => ~(Called(r, "on_success") /\ Called(r, "on_error"))

StepEntries(t) ==
  LET IsStep(e) == e = Entry(Cb("step", t), 0) IN Count(queue, IsStep)

\* C5 as stated: whenever run() has returned, the body of the Task it
\* created has been advanced to its first suspension or to completion.
C5_AdvancedInsideRun ==
  \A t \in TaskIds : tpc[t] # "created"

\* C5, amended: run() only creates the Task and appends its first step to
\* the Callback Queue; the body stays unstarted, with that one entry
\* queued, until a pump runs the entry, and that pump advances the body to
\* its first suspension or to completion.
C5_FirstStepQueued ==
  /\ [](\A t \in TaskIds :
          tpc[t] = "created"
            => /\ StepEntries(t) = 1
               /\ fstate[t] = "Pending"
               /\ waiter[t] = 0)
  /\ [][\A t \in TaskIds :
          /\ (tpc[t] = "none" /\ tpc'[t] # "none")
               => /\ last'.op = "run"
                  /\ tpc'[t] = "created"
                  /\ Len(queue') > Len(queue)
                  /\ queue'[Len(queue) + 1] = Entry(Cb("step", t), 0)
          /\ (tpc[t] = "created" /\ tpc'[t] # "created")
               => /\ pumpTick' # pumpTick
                  /\ tpc'[t] \in {"suspended", "finished"}
                  /\ StepEntries(t)' = 0]_vars

C5_Witness ==
  \E t \in TaskIds :
    /\ last.op = "pump_once"
    /\ tpc[t] = "suspended"
    /\ waiter[t] \in Plain
    /\ executed = << Entry(Cb("step", t), 0) >>

WakeupQueued(t) ==
  \E i \in 1..Len(queue) : queue[i].cb = Cb("wakeup", t)

WakeupSubscribed(t) ==
  \E f \in FutIds : \E i \in 1..Len(fcbs[f]) : fcbs[f][i] = Cb("wakeup", t)

RECURSIVE Dedup(_, _)
Dedup(q, seen) ==
  IF q = << >> THEN << >>
  ELSE IF Head(q) \in seen THEN Dedup(Tail(q), seen)
  ELSE << Head(q) >> \o Dedup(Tail(q), seen \cup {Head(q)})

\* The order in which the children's completions reach gather: those
\* complete when gather was called in argument order, then the others in
\* the order they completed.
Reported ==
  LET early == {order[i] : i \in 1..gatherAt}
      IsEarly(c) == c \in early
      IsChild(c) == c \in Range(gchildren)
  IN SelectSeq(Dedup(gchildren, {}), IsEarly)
       \o SelectSeq(SubSeq(order, gatherAt + 1, Len(order)), IsChild)

GatherQueued ==
  LET IsG(e) == e.cb.kind = "gather" IN Count(queue, IsG)

\* The completions gather has been told of so far.
Told == SubSeq(Reported, 1, Len(Reported) - GatherQueued)

NDistinct == Cardinality(Range(gchildren))

ErrorOf(c) == IF fstate[c] = "Cancelled" THEN CancelledError ELSE ErrOf(c)

SlotOf(c) ==
  CASE fstate[c] = "Done" -> ValOf(c)
    [] fstate[c] = "Failed" -> ErrOf(c)
    [] OTHER -> CancelledError

InputsUntouched ==
  [][(pumpTick' # pumpTick \/ gactive' # gactive)
       => \A f \in GIn : fstate'[f] = fstate[f] /\ fval'[f] = fval[f]]_vars

\* C8 as stated: once gather has been told of a failed input its outcome
\* is Failed with the error of the first input that failed; with no failed
\* input and every input Done the outcome is the results in input order.
C8_FirstFailure ==
  gactive = "gather" =>
    LET IsFailed(c) == fstate[c] = "Failed"
        failed == SelectSeq(Told, IsFailed)
    IN /\ failed # << >>
            => fstate[Outer] = "Failed" /\ fval[Outer] = ErrOf(failed[1])
       /\ (Len(Told) = NDistinct /\ \A c \in Range(gchildren) : fstate[c] = "Done")
            => /\ fstate[Outer] = "Done"
               /\ gresult = [i \in 1..Len(gchildren) |-> ValOf(gchildren[i])]

\* C8, amended: a cancelled input counts as a failure with CancelledError.
\* Once gather has been told of an input that failed or was cancelled its
\* outcome is Failed with the error of the first such input, whatever the
\* other inputs did; when it has been told of every input and all are Done
\* the outcome is the results in input order; else it is Pending.  gather
\* changes no input.
C8_FirstFailureOrCancel ==
  /\ [](gactive = "gather" =>
          LET IsBad(c) == fstate[c] # "Done"
              bad == SelectSeq(Told, IsBad)
          IN IF bad # << >>
             THEN fstate[Outer] = "Failed" /\ fval[Outer] = ErrorOf(bad[1])
             ELSE IF Len(Told) = NDistinct
             THEN /\ fstate[Outer] = "Done"
                  /\ gresult = [i \in 1..Len(gchildren) |-> ValOf(gchildren[i])]
             ELSE fstate[Outer] = "Pending")
  /\ InputsUntouched

C8_Witness ==
  /\ gactive = "gather"
  /\ fstate[Outer] = "Failed"
  /\ fval[Outer] = ErrOf(2)
  /\ gchildren = << 1, 2, 3 >>
  /\ fstate[1] = "Pending"
  /\ fstate[3] = "Done"
  /\ order = << 3, 2 >>

\* C9: gather_results never ends Failed; it is Pending until it has been
\* told of every input and then Done with one slot per argument, in
\* argument order, holding that input's value or its error.
C9_CollectsAll ==
  gactive = "gather_results" =>
    /\ fstate[Outer] # "Failed"
    /\ IF Len(Told) = NDistinct
       THEN /\ fstate[Outer] = "Done"
            /\ Len(gresult) = NGather
            /\ \A i \in 1..NGather : gresult[i] = SlotOf(gchildren[i])
       ELSE fstate[Outer] = "Pending" /\ gresult = << >>

C9_Witness ==
  /\ gactive = "gather_results"
  /\ fstate[Outer] = "Done"
  /\ gchildren = << 1, 2, 3 >>
  /\ order = << 3, 2, 1 >>
  /\ gresult = << "v1", "e2", "v3" >>

IsTicker(e) == e.cb.kind = "ticker"

\* C10: a pump runs exactly the entries that were queued when it started,
\* in order; what they enqueue (a ticker re-enqueues itself each time it
\* runs) is left in the queue for the next pump, so no ticker runs more
\* than once in one pump.
C10_PumpSnapshot ==
  /\ [][pumpTick' # pumpTick
          => /\ executed' = queue
             /\ queue' = SelectSeq(queue, IsTicker)]_vars
  /\ [](\A id \in 1..MaxCalls :
          LET IsIt(e) == e.cb = Cb("ticker", id)
          IN Count(executed, IsIt) <= 1 /\ Count(queue, IsIt) <= 1)

C10_Witness ==
  /\ last.op = "pump_once"
  /\ Len(executed) >= 2
  /\ \E i \in 1..Len(executed) :
       IsTicker(executed[i]) /\ \E j \in 1..Len(queue) : queue[j] = executed[i]
  /\ \E i \in 1..Len(executed) : ~IsTicker(executed[i])

\* The position of the entry of handle h in the wheel q.
PosIn(q, h) == CHOOSE i \in 1..Len(q) : q[i].h = h

IsDue(e) == e.fire <= now

\* C11: a tick promotes exactly the timer entries with fire_time <= now,
\* each once, in increasing fire_time order and, among equal fire times,
\* in the order they were inserted; it hands them to the Callback Queue
\* in that order and leaves the entries with fire_time > now in the wheel.
C11_PromoteDue ==
  [][last'.op = "tick" =>
       /\ Len(promoted') = Count(timers, IsDue)
       /\ \A i \in 1..Len(timers) :
            timers[i].fire <= now
              <=> \E k \in 1..Len(promoted') : promoted'[k] = timers[i]
       /\ \A k, m \in 1..Len(promoted') :
            k < m =>
              \/ promoted'[k].fire < promoted'[m].fire
              \/ /\ promoted'[k].fire = promoted'[m].fire
                 /\ PosIn(timers, promoted'[k].h) < PosIn(timers, promoted'[m].h)
       /\ executed' = queue \o [k \in 1..Len(promoted') |->
                                 Entry(promoted'[k].h, promoted'[k].fire)]
       /\ \A i \in 1..Len(timers) :
            timers[i].fire > now
              => \E k \in 1..Len(timers') : timers'[k] = timers[i]]_vars

C11_Witness ==
  /\ last.op = "tick"
  /\ now = 5
  /\ promoted = << TimerEntry(Cb("timer", 2), 1),
                   TimerEntry(Cb("timer", 3), 3),
                   TimerEntry(Cb("timer", 1), 5) >>

SetStateQueued(j) ==
  LET IsIt(e) == e = Entry(Cb("set_state", j), JobFut(j)) IN Count(queue, IsIt)

\* C12: run_in_executor returns a Pending Future at once, the call not
\* yet started.  A worker step leaves every Future, Task and timer as it
\* was: starting a call changes nothing of the loop, finishing one appends
\* exactly one callback to the Callback Queue.  The Future becomes Done or
\* Failed only inside a pump that runs that callback, Done with the value
\* the call returned or Failed with the exception it raised, and once
\* resolved it never changes; when the callback has run the Future is
\* resolved (Cancelled if the host cancelled it before).
C12_Handoff ==
  /\ [][last'.op = "run_in_executor" =>
          /\ last'.outcome = last'.fut
          /\ fstate[last'.fut] = "Pending" /\ fstate'[last'.fut] = "Pending"
          /\ jstate'[njobs'] = "queued"
          /\ queue' = queue]_vars
  /\ [][last'.op \in {"worker_start", "worker_finish"} =>
          /\ UNCHANGED << fstate, fval, fcbs, tpc, tbody, waiter, mustCancel,
                          timers, disposedH, delivered, calls, unhandled,
                          executed, pumpTick >>
          /\ last'.op = "worker_start" => queue' = queue
          /\ last'.op = "worker_finish" =>
               \E j \in Jobs :
                 /\ last'.fut = JobFut(j)
                 /\ queue' = Append(queue, Entry(Cb("set_state", j), JobFut(j)))]_vars
  /\ [][\A j \in Jobs :
          /\ (fstate[JobFut(j)] = "Pending" /\ fstate'[JobFut(j)] \in {"Done", "Failed"})
               => /\ pumpTick' # pumpTick
                  /\ SetStateQueued(j) = 1 /\ SetStateQueued(j)' = 0
                  /\ fstate'[JobFut(j)] = "Done"
                       => jstate[j] = "returned" /\ fval'[JobFut(j)] = WorkerValue
                  /\ fstate'[JobFut(j)] = "Failed"
                       => jstate[j] = "raised" /\ fval'[JobFut(j)] = WorkerError
          /\ fstate[JobFut(j)] # "Pending"
               => /\ fstate'[JobFut(j)] = fstate[JobFut(j)]
                  /\ fval'[JobFut(j)] = fval[JobFut(j)]]_vars
  /\ [](\A j \in Jobs :
          /\ handoffs[j] <= 1
          /\ SetStateQueued(j) <= 1
          /\ (jstate[j] \in {"returned", "raised"} /\ SetStateQueued(j) = 0)
               => \/ fstate[JobFut(j)] = "Cancelled"
                  \/ jstate[j] = "returned" /\ fstate[JobFut(j)] = "Done"
                  \/ jstate[j] = "raised" /\ fstate[JobFut(j)] = "Failed")

C12_Witness ==
  /\ last.op = "pump_once"
  /\ jstate[1] = "raised"
  /\ handoffs[1] = 1
  /\ executed = << Entry(Cb("set_state", 1), JobFut(1)) >>
  /\ fstate[JobFut(1)] = "Failed"
  /\ fval[JobFut(1)] = WorkerError

\* C13: never more than max_workers calls run at once; a call submitted
\* stays in the work queue until a worker takes it, which happens only
\* when fewer than max_workers calls are running, and is never lost; and
\* with every call ending and the host pumping, the Future of every
\* submission is eventually resolved.
C13_PoolNeverDrops ==
  /\ [](/\ Cardinality(Running(St)) <= max_workers
        /\ \A j \in Jobs : j <= njobs <=> jstate[j] # "none")
  /\ [][\A j \in Jobs :
          jstate[j] = "queued" =>
            \/ jstate'[j] = "queued"
            \/ /\ jstate'[j] = "running"
               /\ last'.op = "worker_start"
               /\ Cardinality(Running(St)) < max_workers
               /\ \A k \in Queued(St) : j <= k]_vars
  /\ \A j \in Jobs :
       (jstate[j] = "queued") ~> (fstate[JobFut(j)] \in {"Done", "Failed"})

C13_Witness ==
  /\ last.op = "run_in_executor"
  /\ Cardinality(Running(St)) = max_workers
  /\ jstate[max_workers + 1] = "queued"
  /\ last.fut = JobFut(max_workers + 1)
  /\ fstate[JobFut(max_workers + 1)] = "Pending"

\* The error the body of Task t raises: the one its await raised, else its
\* own.
RaisedBy(t) ==
  IF fstate[tbody[t].awaits] = "Failed" THEN fval[tbody[t].awaits]
  ELSE BodyError

\* The failure of Task t has reached an on_error handler, the loop (the
\* completion callback let it escape) or the loop's exception handler.
Observed(t) ==
  \/ \E i \in 1..Len(calls) :
       /\ calls[i].handler = "on_error"
       /\ runcfg[calls[i].run].fut = t
       /\ calls[i].arg = fval[t]
  \/ fval[t] \in unhandled
  \/ fval[t] \in sink

DoneQueued(t) ==
  \E i \in 1..Len(queue) : queue[i].cb.kind = "done" /\ queue[i].arg = t

C15_OrderAndDisposal ==
  /\ [][pumpTick' # pumpTick =>
          /\ executed' = SelectSeq(queue, LAMBDA e : nran'[e.cb.id] > nran[e.cb.id])
          /\ \A i \in 1..Len(queue) :
               /\ queue[i].cb \notin disposedH' => nran'[queue[i].cb.id] = 1
               /\ queue[i].cb \in disposedH => nran'[queue[i].cb.id] = 0
               /\ \A k \in 1..Len(queue) :
                    (/\ i < k
                     /\ queue[i].cb.kind = "dispose"
                     /\ queue[i].arg = queue[k].cb
                     /\ nran'[queue[i].cb.id] = 1)
                      => nran'[queue[k].cb.id] = 0]_vars
  /\ [][last'.op = "dispose" => queue' = queue /\ nran' = nran]_vars
  /\ [][\A h \in disposedH : nran[h.id] = 0 => nran'[h.id] = 0]_vars
  /\ [](\A id \in 1..MaxCalls : nran[id] <= 1)
  /\ [](\A i, k \in 1..Len(queue) : i < k => queue[i].cb.id < queue[k].cb.id)

C15_Witness ==
  /\ last.op = "pump_once"
  /\ executed = << Entry(Cb("once", 1), 0), Entry(Cb("once", 3), 0) >>
  /\ Cb("once", 2) \in disposedH
  /\ nran = [id \in 1..MaxCalls |-> IF id \in {1, 3} THEN 1 ELSE 0]

IsTimer(h) == h.kind \in {"timer", "on_tick"}

InWheel(q, h) == \E i \in 1..Len(q) : q[i].h = h

\* C16: once a timer is disposed its callback never runs again, whether it
\* was disposed before its entry was promoted or after promotion and before
\* the entry ran (no callback a tick runs belongs to a handle disposed before
\* the tick, or to one a disposer disposed earlier in the same tick); a
\* repeating timer that is not disposed is back in the wheel after each firing
\* with its fire time advanced by its interval; a one-shot timer, and a
\* repeating one disposed from its own callback or later in the tick, is not
\* in the wheel; no disposed timer is in the wheel; disposing a second time
\* changes nothing.
C16_TimerDisposal ==
  /\ [][pumpTick' # pumpTick =>
          \A k \in 1..Len(executed') :
            LET e == executed'[k]
            IN /\ e.cb \notin disposedH
               /\ \A i \in 1..(k - 1) :
                    ~(executed'[i].cb.kind = "dispose" /\ executed'[i].arg = e.cb)
               /\ IsTimer(e.cb) =>
                    IF tinfo[e.cb.id].repeat /\ e.cb \notin disposedH'
                    THEN \E i \in 1..Len(timers') :
                           timers'[i] =
                             TimerEntry(e.cb, e.arg + tinfo[e.cb.id].interval)
                    ELSE ~InWheel(timers', e.cb)]_vars
  /\ [](\A h \in disposedH : ~InWheel(timers, h))
  /\ [][(last'.op = "dispose" /\ Cb("timer", last'.fut) \in disposedH) =>
          UNCHANGED << timers, queue, disposedH, handles, tinfo, now,
                       executed, promoted, tick, nran >>]_vars

\* A timer was promoted in this tick behind a disposer aimed at it: the
\* disposer ran, the timer's callback did not, and the timer is gone.
C16_Witness ==
  /\ last.op = "tick"
  /\ \E h \in disposedH :
       /\ h.kind = "timer"
       /\ tinfo[h.id].repeat
       /\ \E k \in 1..Len(promoted) : promoted[k].h = h
       /\ \E k \in 1..Len(executed) :
            executed[k].cb.kind = "dispose" /\ executed[k].arg = h
       /\ \A k \in 1..Len(executed) : executed[k].cb # h
       /\ ~InWheel(timers, h)
  /\ finished /\ pvtimer \in disposedH

EndsWith(q, tail) ==
  /\ Len(q) >= Len(tail)
  /\ SubSeq(q, Len(q) - Len(tail) + 1, Len(q)) = tail

\* C17: a cancel the body of a Task asks for while it runs does not
\* interrupt the step: in the trail of every Task the event after "cancel"
\* is the body's own next one (it suspends, returns, raises, or its await
\* of a failed future raises), never the CancelledError thrown in. At the suspension the cancel is delivered: the
\* awaited future is cancelled there and then, the wakeup is queued, the note
\* is cleared and the Task is still pending, and the body's next event is
\* the throw. A body that ends in the step it asked in has ended by itself:
\* its Task is finished and nothing follows in its trail.
C17_CooperativeCancel ==
  /\ [](\A t \in TaskIds : \A i \in 1..Len(trail[t]) :
          /\ trail[t][i] = "cancel" =>
               /\ i < Len(trail[t])
               /\ trail[t][i + 1] \in
                    {"suspend", "return", "raise", "await_raised"}
               /\ (trail[t][i + 1] = "suspend" /\ i + 2 <= Len(trail[t]))
                    => trail[t][i + 2] = "throw"
          /\ trail[t][i] \in {"return", "raise", "cancelled"}
               => /\ i = Len(trail[t])
                  /\ tpc[t] = "finished"
                  /\ fstate[t] # "Pending")
  /\ [][\A t \in TaskIds :
          /\ (trail'[t] # trail[t]
              /\ EndsWith(trail'[t], << "cancel", "suspend" >>))
               => /\ waiter'[t] = tbody'[t].awaits
                  /\ fstate[waiter'[t]] = "Pending"
                  /\ fstate'[waiter'[t]] = "Cancelled"
                  /\ \E i \in 1..Len(queue') :
                       queue'[i] = Entry(Cb("wakeup", t), waiter'[t])
                  /\ ~mustCancel'[t]
                  /\ tpc'[t] = "suspended"
                  /\ fstate'[t] = "Pending"
          /\ (trail'[t] # trail[t]
              /\ \/ EndsWith(trail'[t], << "cancel", "return" >>)
                 \/ EndsWith(trail'[t], << "cancel", "raise" >>))
               => /\ tpc'[t] = "finished"
                  /\ fstate'[t] = "Failed"]_vars

\* The body asked for the cancel before its await, suspended, and was
\* resumed with the CancelledError, which it let through.
C17_Witness ==
  \E t \in TaskIds :
    /\ trail[t] = << "cancel", "suspend", "throw", "cancelled" >>
    /\ fstate[t] = "Cancelled"
    /\ fstate[tbody[t].awaits] = "Cancelled"

CallsOf(r, h) ==
  SelectSeq(calls, LAMBDA c : c.run = r /\ c.handler = h)

\* The completion callback of run r is attached to a future or waits in
\* the queue.
DonePending(r) ==
  \/ \E f \in FutIds : \E i \in 1..Len(fcbs[f]) : fcbs[f][i] = Cb("done", r)
  \/ \E i \in 1..Len(queue) : queue[i].cb = Cb("done", r)

\* What a future that did not end Done raises from result().
RaisedFrom(f) == IF fstate[f] = "Cancelled" THEN CancelledError ELSE fval[f]

\* C18: for every run() made so far, once its completion callback has run:
\* with on_error, a task that ended Failed or Cancelled has had on_error
\* called exactly once, with the exception the task raises, and on_success
\* not at all; with on_success alone, a task that ended Done has had
\* on_success called exactly once with the result, and one that ended Failed
\* or Cancelled has had no handler called. Until the callback has run no
\* handler is called, and with neither handler no completion callback is
\* ever attached or queued.
C18_RunHandlers ==
  \A r \in 1..nruns :
    LET c == runcfg[r]
        task == c.fut
        notDone == fstate[task] \in {"Failed", "Cancelled"}
    IN /\ (c.hasE \/ c.hasS) =>
            IF DonePending(r)
            THEN CallsOf(r, "on_error") = << >> /\ CallsOf(r, "on_success") = << >>
            ELSE /\ fstate[task] # "Pending"
                 /\ (c.hasE /\ notDone) =>
                      /\ CallsOf(r, "on_error") =
                           << [run |-> r, handler |-> "on_error",
                               arg |-> RaisedFrom(task)] >>
                      /\ CallsOf(r, "on_success") = << >>
                 /\ (~c.hasE /\ notDone) =>
                      /\ CallsOf(r, "on_error") = << >>
                      /\ CallsOf(r, "on_success") = << >>
                 /\ (~c.hasE /\ fstate[task] = "Done") =>
                      /\ CallsOf(r, "on_success") =
                           << [run |-> r, handler |-> "on_success",
                               arg |-> fval[task]] >>
                      /\ CallsOf(r, "on_error") = << >>
       /\ (~c.hasE /\ ~c.hasS) =>
            /\ ~DonePending(r)
            /\ CallsOf(r, "on_error") = << >>
            /\ CallsOf(r, "on_success") = << >>

\* A run with both handlers whose Task was cancelled: on_error alone was
\* called, once, with the CancelledError.
C18_Witness ==
  \E r \in 1..nruns :
    /\ runcfg[r].hasE /\ runcfg[r].hasS
    /\ runcfg[r].fut \in TaskIds
    /\ fstate[runcfg[r].fut] = "Cancelled"
    /\ ~DonePending(r)
    /\ calls = << [run |-> r, handler |-> "on_error", arg |-> CancelledError] >>

HasModules(q, m) == \E i \in 1..Len(q) : m[q[i]] > 0

\* C19: right after every updated() of the modules view, on a
\* modules-updated or a session-removed event, visible() is true exactly if
\* some session then in debugger.sessions has modules; when the last
\* session that has modules is removed the view, visible until then, is
\* not visible any more.
C19_VisibleIffModules ==
  /\ [][last'.op \in {"modules_updated", "session_removed"} =>
          (visible' <=> HasModules(sessions', modules'))]_vars
  /\ [][(/\ last'.op = "session_removed"
         /\ visible
         /\ HasModules(sessions, modules)
         /\ ~HasModules(sessions', modules')) => ~visible']_vars

\* The one session with modules has just been removed, others remain, and
\* the view is not visible.
C19_Witness ==
  /\ last.op = "session_removed"
  /\ modules[last.fut] > 0
  /\ sessions # << >>
  /\ ~HasModules(sessions, modules)
  /\ ~visible

OnTickRan(q) == \E k \in 1..Len(q) : q[k].cb = pvtimer

\* C20: the tick counter of the problems view changes only when on_tick
\* runs, and then by one. An on_tick that finds the terminal not finished
\* leaves the timer undisposed and in the wheel; until the terminal has
\* finished the timer of an open view is never disposed. The first on_tick
\* that finds the terminal finished disposes the timer, which is then out of
\* the wheel: on_tick runs at most once after the terminal finished, and
\* the counter stays what that tick left.
C20_TickUntilFinished ==
  /\ [][tick' # tick =>
          /\ tick' = tick + 1
          /\ last'.op = "tick"
          /\ OnTickRan(executed')]_vars
  /\ [][(pumpTick' # pumpTick /\ pvtimer # NoHandle /\ OnTickRan(executed')) =>
          /\ tick' = tick + 1
          /\ IF finished
             THEN pvtimer \in disposedH' /\ ~InWheel(timers', pvtimer)
             ELSE pvtimer \notin disposedH' /\ InWheel(timers', pvtimer)]_vars
  /\ []((~finished /\ pvtimer # NoHandle) =>
          (pvtimer \notin disposedH /\ InWheel(timers, pvtimer)))
  /\ [](finished => tick <= tickAtEnd + 1)
  /\ [](pvtimer \in disposedH => (finished /\ tick = tickAtEnd + 1))
  /\ [][(pvtimer \in disposedH) =>
          (tick' = tick /\ pvtimer \in disposedH')]_vars

\* The view ticked twice while the terminal ran; the tick after its end
\* has just run and has disposed the timer.
C20_Witness ==
  /\ last.op = "tick"
  /\ finished
  /\ tickAtEnd >= 2
  /\ tick = tickAtEnd + 1
  /\ OnTickRan(executed)
  /\ pvtimer \in disposedH
  /\ ~InWheel(timers, pvtimer)

====
